---------------------------- MODULE Spec2Model ----------------------------
(***************************************************************************)
(* A model of gsc::UrdfToSimoxXml (urdf_to_simox_xml.cpp): the conversion  *)
(* of a URDF hand description into a Simox XML robot document.             *)
(*                                                                         *)
(* Init is the state after the constructor: urdf_model_ parsed, links_     *)
(* filled by getLinks, joints_ collected from the links and sorted.  The   *)
(* actions are the consecutive code segments of write_xml and of the       *)
(* functions it calls; pc is the position of the single thread.  The       *)
(* recursion add_link_node_ <-> add_joint_node_ is unfolded into an        *)
(* explicit call stack.                                                    *)
(*                                                                         *)
(* Strings are sequences of byte values (std::string of char), so that     *)
(* find, erase, iter_split, to_lower, operator< and the char -> int cast   *)
(* are computed as the code computes them.  Poses, axes and limits are     *)
(* not modelled: no control flow depends on them.                          *)
(***************************************************************************)
EXTENDS Integers, Sequences, FiniteSets, TLC

VARIABLES
  urdf_model_,         \* [link: id -> Link record, joint: id -> Joint record]
  links_,              \* sequence of link ids, in the order getLinks returned them
  joints_,             \* sequence of joint ids, sorted by compareUrdfJoint
  pc,                  \* position of the run
  err,                 \* which exit(EXIT_FAILURE) was taken, "none" otherwise
  simox_xml_filename,  \* argument of write_xml
  hand_name,           \* stringList.front()
  base_link,           \* links_[0]->name as read at line 122; <<>> before
  hand_node,           \* ordered children of the ptree hand_node
  stack,               \* call stack of add_link_node_ frames [link, idx]
  link,                \* link of the running add_link_node_ call, 0 if none
  link_node,           \* File texts collected so far for the running link
  simox_filename,      \* target path computed by the running convert_mesh_
  fp,                  \* the popen handle: "null", "open" or "closed"
  line,                \* last line getline stored, <<>> for NULL
  status,              \* what pclose reported of the tool's exit, as << code >>,
                       \* while convert_mesh_ is past pclose; <<>> otherwise
  invocations,         \* log of the popen commands issued, in order
  file                 \* what was written to the output path: <<>> if it never
                       \* was, else the one document

vars == << urdf_model_, links_, joints_, pc, err, simox_xml_filename, hand_name,
           base_link, hand_node, stack, link, link_node, simox_filename, fp,
           line, status, invocations, file >>

-----------------------------------------------------------------------------
(* Bounds of the model.                                                    *)

MaxLinks == 3

-----------------------------------------------------------------------------
(* std::string and boost string algorithms.                                *)

\* "." of boost::first_finder(".") in write_xml, and '.' in convert_mesh_
Dot == <<46>>

\* "/" of boost::first_finder("/") and of the path concatenations
Slash == <<47>>

\* std::string packagePrefix("package://")
packagePrefix == <<112, 97, 99, 107, 97, 103, 101, 58, 47, 47>>

\* the meshlabserver diagnostic "loaded has 0 vn"
FailureMarker ==
  <<108, 111, 97, 100, 101, 100, 32, 104, 97, 115, 32, 48, 32, 118, 110>>

\* "_hand_base", "_hand_tcp", "_hand_gcp"
HandBaseSuffix == <<95, 104, 97, 110, 100, 95, 98, 97, 115, 101>>
HandTcpSuffix == <<95, 104, 97, 110, 100, 95, 116, 99, 112>>
HandGcpSuffix == <<95, 104, 97, 110, 100, 95, 103, 99, 112>>

\* ".wrl" and "/meshes"
WrlSuffix == <<46, 119, 114, 108>>
MeshesDir == <<47, 109, 101, 115, 104, 101, 115>>

SetMin(S) == CHOOSE x \in S : \A y \in S : x <= y

\* std::string::find(pat, 0): first position (1-based) of pat in s, 0 for npos
Find(s, pat) ==
  LET hits == { i \in 1..(Len(s) - Len(pat) + 1) :
                  SubSeq(s, i, i + Len(pat) - 1) = pat }
  IN  IF hits = {} THEN 0 ELSE SetMin(hits)

\* std::string::find_last_of(c): last position of the one character c, 0 for npos
FindLastOf(s, c) ==
  LET hits == { i \in 1..Len(s) : s[i] = c[1] }
  IN  IF hits = {} THEN 0 ELSE CHOOSE i \in hits : \A k \in hits : k <= i

\* std::string::erase(pos, len)
Erase(s, pos, len) == SubSeq(s, 1, pos - 1) \o SubSeq(s, pos + len, Len(s))

\* boost::iter_split(list, s, first_finder(sep)): the parts between occurrences
RECURSIVE iter_split(_, _)
iter_split(s, sep) ==
  LET p == Find(s, sep)
  IN  IF p = 0 THEN << s >>
      ELSE << SubSeq(s, 1, p - 1) >> \o iter_split(SubSeq(s, p + Len(sep), Len(s)), sep)

\* boost::to_lower_copy / boost::to_upper_copy in the C locale
to_lower_copy(s) == [i \in 1..Len(s) |-> IF s[i] >= 65 /\ s[i] <= 90 THEN s[i] + 32 ELSE s[i]]
to_upper_copy(s) == [i \in 1..Len(s) |-> IF s[i] >= 97 /\ s[i] <= 122 THEN s[i] - 32 ELSE s[i]]

\* std::string operator<: lexicographic on the bytes as unsigned char
RECURSIVE StringLess(_, _)
StringLess(a, b) ==
  IF b = <<>> THEN FALSE
  ELSE IF a = <<>> THEN TRUE
  ELSE IF a[1] # b[1] THEN a[1] < b[1]
  ELSE StringLess(Tail(a), Tail(b))


-----------------------------------------------------------------------------
(* The inputs: the parsed urdf::Model, and the argument of write_xml.      *)
(* Link 1 is the root of the kinematic tree and joint j leads to link      *)
(* j + 1, so every rooted tree shape is a choice of the joints' parents;   *)
(* the order of links_ and the declaration order of each link's            *)
(* child_joints are chosen separately.                                     *)

\* Ways of naming the links and joints.  Link names are unique and joint
\* names are unique (urdf::Model keeps each in a map keyed by name); a link
\* and a joint may share a name.
NameSchemes == {"plain", "fingers", "shared", "synthetic", "highbyte"}

\* the name of link i
LinkName(scheme, i) ==
  CASE scheme = "fingers" -> <<118 - i, 108>>                \* "ul", "tl", "sl", ...
    [] scheme = "synthetic" /\ i = 1 -> <<97>> \o HandGcpSuffix  \* "a_hand_gcp"
    [] OTHER -> <<108, 48 + i>>                              \* "l1", "l2", ...

\* the name of joint j
JointName(scheme, j) ==
  CASE scheme = "fingers" -> <<117 - j, 106>>                \* "tj", "sj", "rj", ...
    [] scheme = "shared" -> <<108, 49 + j>>                  \* the name of its child link
    [] scheme = "highbyte" /\ j = 1 -> <<195, 169, 106>>     \* UTF-8 e-acute, then "j"
    [] OTHER -> <<106, 48 + j>>                              \* "j1", "j2", ...

\* What can be wrong with a link's visual.
LinkFaults == {"geometry", "noprefix", "lateprefix", "short"}

\* mesh->filename of link i: "package://p/m<i>.s" for an odd i and
\* "package://p/m<i>.a.s" for an even one, unless the reference is faulty
MeshFilename(fault, i) ==
  LET rel == <<112, 47, 109, 48 + i>>
               \o (IF i % 2 = 0 THEN <<46, 97>> ELSE <<>>) \o <<46, 115>>
  IN  CASE fault = "noprefix" -> rel                               \* "p/m1.s"
        [] fault = "lateprefix" -> <<120, 47>> \o packagePrefix \o rel  \* "x/package://p/m1.s"
        [] fault = "short" -> packagePrefix \o <<112>>             \* "package://p"
        [] OTHER -> packagePrefix \o rel

\* The sequences that list every element of S once.
Orders(S) ==
  { f \in [1..Cardinality(S) -> S] : \A i, k \in DOMAIN f : i # k => f[i] # f[k] }

\* urdf::Link as the engine reads it
LinkRecord(scheme, i, fault, children) ==
  [ name         |-> LinkName(scheme, i),
    geometry     |-> IF fault = "geometry" THEN "BOX" ELSE "MESH",
    filename     |-> IF fault = "geometry" THEN <<>> ELSE MeshFilename(fault, i),
    child_joints |-> children ]

\* urdf::Joint as the engine reads it
JointRecord(scheme, j, faulty) ==
  [ name            |-> JointName(scheme, j),
    type            |-> IF faulty THEN "PRISMATIC"
                        ELSE IF j % 2 = 1 THEN "REVOLUTE" ELSE "FIXED",
    child_link_name |-> LinkName(scheme, j + 1) ]

\* The models with n links: every tree shape and every declaration order of
\* the child joints, with at most one faulty link and at most one joint of
\* an unsupported type; the naming schemes other than "plain" go with the
\* models that have neither.  Every link has a visual (add_link_node_
\* dereferences link->visual unchecked).
Models(n) ==
  { [ link  |-> [ i \in 1..n |->
                    LinkRecord(scheme, i,
                               IF i = badLink THEN fault ELSE "none",
                               SelectSeq(decl, LAMBDA j : parent[j] = i)) ],
      joint |-> [ j \in 1..(n - 1) |-> JointRecord(scheme, j, j = badJoint) ] ] :
    << scheme, badLink, fault, badJoint, parent, decl >> \in
      { t \in NameSchemes \X (0..n) \X LinkFaults \X (0..(n - 1))
                \X [1..(n - 1) -> 1..n] \X Orders(1..(n - 1)) :
          /\ \A j \in 1..(n - 1) : t[5][j] <= j
          /\ t[2] = 0 => t[3] = "geometry"
          /\ t[1] # "plain" => t[2] = 0 /\ t[4] = 0 } }

\* The file names write_xml is called with:
\* "a.x", "B.x", ".", "hand", "", "a.x.x", "a..x"
Filenames ==
  { <<97, 46, 120>>, <<66, 46, 120>>, <<46>>, <<104, 97, 110, 100>>, <<>>,
    <<97, 46, 120, 46, 120>>, <<97, 46, 46, 120>> }

\* output_dir_ and the output_dir argument: "o"
output_dir_ == <<111>>

\* The lines the external tool can print.
ToolLines ==
  { <<111, 107, 10>>,                                      \* "ok\n"
    <<108, 111, 97, 100, 101, 100, 32, 104, 97, 115, 32, 49, 32, 118, 110, 10>>,
                                                           \* "loaded has 1 vn\n"
    <<120>> \o FailureMarker \o <<10>> }                   \* "x" marker "\n"

-----------------------------------------------------------------------------
(* The constructor.                                                        *)

\* UrdfToSimoxXml::compareUrdfJoint, on two urdf::Joint records
compareUrdfJoint(j1, j2) == StringLess(j1.name, j2.name)

\* the loop of the constructor that appends every link's child_joints
RECURSIVE CollectJoints(_, _)
CollectJoints(model, links) ==
  IF links = <<>> THEN <<>>
  ELSE model.link[Head(links)].child_joints \o CollectJoints(model, Tail(links))

\* one insertion of std::sort's result: x goes before the first element it precedes
RECURSIVE InsertJoint(_, _, _)
InsertJoint(model, x, sorted) ==
  IF sorted = <<>> THEN << x >>
  ELSE IF compareUrdfJoint(model.joint[x], model.joint[Head(sorted)])
       THEN << x >> \o sorted
       ELSE << Head(sorted) >> \o InsertJoint(model, x, Tail(sorted))

\* std::sort(joints_.begin(), joints_.end(), compareUrdfJoint)
RECURSIVE SortJoints(_, _)
SortJoints(model, js) ==
  IF js = <<>> THEN <<>>
  ELSE InsertJoint(model, Head(js), SortJoints(model, Tail(js)))

\* ConstructJoints, were the std::sort left out
UnsortedJoints(model, links) == CollectJoints(model, links)

\* joints_ as the constructor leaves it
ConstructJoints(model, links) == SortJoints(model, CollectJoints(model, links))

Init ==
  \E n \in 1..MaxLinks :
    \E model \in Models(n) :
      \E order \in Orders(1..n) :
        /\ urdf_model_ = model
        /\ links_ = order
        /\ joints_ = ConstructJoints(model, order)
        /\ pc = "write_xml"
        /\ err = "none"
        /\ simox_xml_filename = <<>>
        /\ hand_name = <<>>
        /\ base_link = <<>>
        /\ hand_node = <<>>
        /\ stack = <<>>
        /\ link = 0
        /\ link_node = <<>>
        /\ simox_filename = <<>>
        /\ fp = "null"
        /\ line = <<>>
        /\ status = <<>>
        /\ invocations = <<>>
        /\ file = <<>>

-----------------------------------------------------------------------------
(* write_xml and the functions it calls.                                   *)

\* Fatal, were the document built so far flushed to the output path on the
\* way out
FatalFlushing(e) ==
  /\ pc' = "exit"
  /\ err' = e
  /\ file' = << [ path |-> output_dir_ \o Slash \o simox_xml_filename,
                  Type |-> to_upper_copy(hand_name),
                  RootNode |-> to_lower_copy(hand_name) \o HandBaseSuffix,
                  Robot |-> hand_node ] >>

\* exit (EXIT_FAILURE) after the diagnostic for e: the run ends, the output
\* path is left as it was
Fatal(e) ==
  /\ pc' = "exit"
  /\ err' = e
  /\ file' = file

\* WellFormedOutputName, were the test "fewer than two parts"
AtLeastTwoParts(filename) == Len(iter_split(filename, Dot)) >= 2

\* the test of stringList.size() at the head of write_xml
WellFormedOutputName(filename) == Len(iter_split(filename, Dot)) = 2

hand_name_lower == to_lower_copy(hand_name)
hand_name_upper == to_upper_copy(hand_name)
hand_base == hand_name_lower \o HandBaseSuffix
hand_tcp == hand_name_lower \o HandTcpSuffix
hand_gcp == hand_name_lower \o HandGcpSuffix

\* write_xml, from its entry to the read of links_[0]
WriteXml ==
  /\ pc = "write_xml"
  /\ \E filename \in Filenames :
       /\ simox_xml_filename' = filename
       /\ IF ~WellFormedOutputName(filename)
          THEN /\ Fatal("MalformedOutputName")
               /\ UNCHANGED << hand_name, base_link >>
          ELSE /\ hand_name' = Head(iter_split(filename, Dot))
               /\ base_link' = urdf_model_.link[links_[1]].name
               /\ pc' = "hand_base"
               /\ UNCHANGED << err, file >>
  /\ UNCHANGED << urdf_model_, links_, joints_, hand_node, stack, link, link_node,
                  simox_filename, fp, line, status, invocations >>

\* the state a segment that only appends to hand_node leaves alone
AppendOnly ==
  UNCHANGED << urdf_model_, links_, joints_, err, simox_xml_filename, hand_name,
               base_link, stack, link_node, simox_filename, fp, line, status,
               invocations, file >>

add_hand_base_node_ ==
  /\ pc = "hand_base"
  /\ hand_node' = Append(hand_node,
       [ tag |-> "RobotNode", kind |-> "base", id |-> 0, name |-> hand_base,
         Child |-> << hand_tcp, hand_gcp, base_link >> ])
  /\ pc' = "hand_tcp"
  /\ UNCHANGED link
  /\ AppendOnly

add_hand_tcp_node_ ==
  /\ pc = "hand_tcp"
  /\ hand_node' = Append(hand_node,
       [ tag |-> "RobotNode", kind |-> "tcp", id |-> 0, name |-> hand_tcp,
         Child |-> <<>> ])
  /\ pc' = "hand_gcp"
  /\ UNCHANGED link
  /\ AppendOnly

\* add_hand_gcp_node_, then the call add_link_node_(hand_node, links_[0])
add_hand_gcp_node_ ==
  /\ pc = "hand_gcp"
  /\ hand_node' = Append(hand_node,
       [ tag |-> "RobotNode", kind |-> "gcp", id |-> 0, name |-> hand_gcp,
         Child |-> <<>> ])
  /\ link' = links_[1]
  /\ pc' = "link"
  /\ AppendOnly

\* the geometry->type test of add_link_node_
SupportedGeometry(geometry) == geometry = "MESH"

\* add_link_node_, from its entry to the first call of convert_mesh_
add_link_node_ ==
  /\ pc = "link"
  /\ IF ~SupportedGeometry(urdf_model_.link[link].geometry)
     THEN Fatal("UnsupportedGeometry")
     ELSE /\ pc' = "visualization"
          /\ UNCHANGED << err, file >>
  /\ UNCHANGED << urdf_model_, links_, joints_, simox_xml_filename, hand_name,
                  base_link, hand_node, stack, link, link_node, simox_filename,
                  fp, line, status, invocations >>

-----------------------------------------------------------------------------
(* convert_mesh_.                                                          *)

\* ros::package::getPath, an external resolver: some absolute directory that
\* depends on the package name only ("/" package_name here)
getPath(package_name) == Slash \o package_name

\* the two tests of convert_mesh_ that end in exit (EXIT_FAILURE): the
\* reference holds no "package://", or what is left of it has no "/"
MalformedMeshReference(urdf_filename) ==
  LET pos1 == Find(urdf_filename, packagePrefix)
  IN  \/ pos1 = 0
      \/ Len(iter_split(Erase(urdf_filename, pos1, Len(packagePrefix)), Slash)) < 2

\* "/" token for every token but the first
RECURSIVE JoinTokens(_)
JoinTokens(tokens) ==
  IF tokens = <<>> THEN <<>> ELSE Slash \o Head(tokens) \o JoinTokens(Tail(tokens))

\* original_filename: the package path, then the rest of the reference
OriginalFilename(urdf_filename) ==
  LET pos1 == Find(urdf_filename, packagePrefix)
      stringList == iter_split(Erase(urdf_filename, pos1, Len(packagePrefix)), Slash)
  IN  getPath(Head(stringList)) \o JoinTokens(Tail(stringList))

\* simox_filename before the directory is put in front: the part of the
\* reference after its last "/", cut at find_first_of('.'), then ".wrl"
SimoxBasename(urdf_filename) ==
  LET sp == FindLastOf(urdf_filename, Slash)
      last_part == IF Find(urdf_filename, Slash) # 0
                   THEN SubSeq(urdf_filename, sp + 1, Len(urdf_filename))
                   ELSE <<>>
      dot == Find(last_part, Dot)
  IN  (IF dot = 0 THEN last_part ELSE SubSeq(last_part, 1, dot - 1)) \o WrlSuffix

\* simox_filename as popen gets it and as convert_mesh_ returns it
SimoxFilename(urdf_filename) ==
  output_dir_ \o MeshesDir \o Slash \o SimoxBasename(urdf_filename)

\* the test of one line of the tool's output
HasFailureMarker(str) == Find(str, FailureMarker) # 0

\* convert_mesh_(mesh->filename), from its entry to popen; called for the
\* Visualization File and again for the CollisionModel File.  The creation
\* of the meshes directory is left out: nothing read here depends on it.
convert_mesh_ ==
  /\ pc \in {"visualization", "collision"}
  /\ LET urdf_filename == urdf_model_.link[link].filename
     IN  IF MalformedMeshReference(urdf_filename)
         THEN /\ Fatal("MalformedMeshReference")
              /\ UNCHANGED << simox_filename, fp, invocations >>
         ELSE /\ simox_filename' = SimoxFilename(urdf_filename)
              /\ invocations' = Append(invocations,
                   [ i |-> OriginalFilename(urdf_filename),
                     o |-> SimoxFilename(urdf_filename) ])
              /\ fp' = "open"
              /\ pc' = IF pc = "visualization" THEN "visualization_getline"
                                               ELSE "collision_getline"
              /\ UNCHANGED << err, file >>
  /\ UNCHANGED << urdf_model_, links_, joints_, simox_xml_filename, hand_name,
                  base_link, hand_node, stack, link, link_node, line, status >>

\* getline returns a line of the tool's output
getline_line ==
  /\ pc \in {"visualization_getline", "collision_getline"}
  /\ \E str \in ToolLines :
       /\ line' = str
       /\ IF HasFailureMarker(str)
          THEN Fatal("MeshConversionFailed")
          ELSE UNCHANGED << pc, err, file >>
  /\ UNCHANGED << urdf_model_, links_, joints_, simox_xml_filename, hand_name,
                  base_link, hand_node, stack, link, link_node, simox_filename,
                  fp, status, invocations >>

\* getline returns -1: free(line) and pclose(fp), whose result, the tool's
\* exit status, is not looked at
getline_eof ==
  /\ pc \in {"visualization_getline", "collision_getline"}
  /\ \E code \in {0, 1} :
       /\ line' = <<>>
       /\ fp' = "closed"
       /\ status' = << code >>
       /\ pc' = IF pc = "visualization_getline" THEN "visualization_return"
                                                ELSE "collision_return"
  /\ UNCHANGED << urdf_model_, links_, joints_, err, simox_xml_filename, hand_name,
                  base_link, hand_node, stack, link, link_node, simox_filename,
                  invocations, file >>

\* convert_mesh_return, were a tool that exits with another status than 0
\* taken as a failed conversion
convert_mesh_return_on_status ==
  /\ pc \in {"visualization_return", "collision_return"}
  /\ IF status # << 0 >>
     THEN /\ Fatal("MeshConversionFailed")
          /\ UNCHANGED << link_node, simox_filename, status >>
     ELSE /\ link_node' = Append(link_node, simox_filename)
          /\ simox_filename' = <<>>
          /\ status' = <<>>
          /\ pc' = IF pc = "visualization_return" THEN "collision" ELSE "link_children"
          /\ UNCHANGED << err, file >>
  /\ UNCHANGED << urdf_model_, links_, joints_, simox_xml_filename, hand_name,
                  base_link, hand_node, stack, link, fp, line, invocations >>

\* return simox_filename: the target path goes into the File node that
\* add_link_node_ is building
convert_mesh_return ==
  /\ pc \in {"visualization_return", "collision_return"}
  /\ link_node' = Append(link_node, simox_filename)
  /\ simox_filename' = <<>>
  /\ status' = <<>>
  /\ pc' = IF pc = "visualization_return" THEN "collision" ELSE "link_children"
  /\ UNCHANGED << urdf_model_, links_, joints_, err, simox_xml_filename, hand_name,
                  base_link, hand_node, stack, link, fp, line, invocations, file >>

-----------------------------------------------------------------------------
(* The rest of add_link_node_, and add_joint_node_.                        *)

\* the names of the joints js, in that order
RECURSIVE JointNames(_)
JointNames(js) ==
  IF js = <<>> THEN <<>>
  ELSE << urdf_model_.joint[Head(js)].name >> \o JointNames(Tail(js))

\* add_link_node_ after the two conversions: the Child references, the
\* RobotNode of the link, and the entry of the loop over child_joints
add_link_node_children ==
  /\ pc = "link_children"
  /\ hand_node' = Append(hand_node,
       [ tag |-> "RobotNode", kind |-> "link", id |-> link,
         name |-> urdf_model_.link[link].name,
         File |-> link_node,
         Child |-> JointNames(urdf_model_.link[link].child_joints) ])
  /\ stack' = << [link |-> link, idx |-> 1] >> \o stack
  /\ link_node' = <<>>
  /\ pc' = "child_joints"
  /\ UNCHANGED << urdf_model_, links_, joints_, err, simox_xml_filename, hand_name,
                  base_link, link, simox_filename, fp, line, status, invocations, file >>

\* SupportedJointType, were the final else branch missing
AnyJointType(type) == TRUE

\* the two joint types add_joint_node_ has a branch for
SupportedJointType(type) == type \in {"REVOLUTE", "FIXED"}

\* urdf_model_->getLink(name)
getLink(name) ==
  CHOOSE i \in DOMAIN urdf_model_.link : urdf_model_.link[i].name = name

\* one turn of the loop over child_joints: add_joint_node_ for the next
\* child joint, up to its call of add_link_node_ for the child link
add_joint_node_ ==
  /\ pc = "child_joints"
  /\ Head(stack).idx <= Len(urdf_model_.link[Head(stack).link].child_joints)
  /\ LET frame == Head(stack)
         child_joint == urdf_model_.joint[urdf_model_.link[frame.link].child_joints[frame.idx]]
         child_link == getLink(child_joint.child_link_name)
     IN  IF ~SupportedJointType(child_joint.type)
         THEN /\ Fatal("UnsupportedJointType")
              /\ UNCHANGED << hand_node, stack, link >>
         ELSE /\ hand_node' = Append(hand_node,
                   [ tag |-> "RobotNode", kind |-> "joint",
                     id |-> urdf_model_.link[frame.link].child_joints[frame.idx],
                     name |-> child_joint.name,
                     Joint |-> IF child_joint.type = "REVOLUTE" THEN "revolute" ELSE "fixed",
                     Child |-> << urdf_model_.link[child_link].name >> ])
              /\ stack' = << [frame EXCEPT !.idx = frame.idx + 1] >> \o Tail(stack)
              /\ link' = child_link
              /\ pc' = "link"
              /\ UNCHANGED << err, file >>
  /\ UNCHANGED << urdf_model_, links_, joints_, simox_xml_filename, hand_name,
                  base_link, link_node, simox_filename, fp, line, status, invocations >>

\* the loop over child_joints is over: add_link_node_ returns, to the
\* add_joint_node_ that called it and so to the loop of the parent link, or
\* to write_xml
add_link_node_return ==
  /\ pc = "child_joints"
  /\ Head(stack).idx > Len(urdf_model_.link[Head(stack).link].child_joints)
  /\ stack' = Tail(stack)
  /\ link' = IF Tail(stack) = <<>> THEN 0 ELSE Head(Tail(stack)).link
  /\ pc' = IF Tail(stack) = <<>> THEN "endeffector" ELSE "child_joints"
  /\ UNCHANGED << urdf_model_, links_, joints_, err, simox_xml_filename, hand_name,
                  base_link, hand_node, link_node, simox_filename, fp, line, status,
                  invocations, file >>

-----------------------------------------------------------------------------
(* get_actors, add_endeffector_node_, add_hand_joints_node_ and the write. *)

\* static_cast<int>(first_char): whether plain char is signed is up to the
\* build, and a byte from 128 on is negative where it is
CharToInt(c, char_is_signed) == IF char_is_signed /\ c >= 128 THEN c - 256 ELSE c

\* static_cast<char>(iter->first), as the byte that is written
IntToChar(k) == k % 256

\* the loop of get_actors over the joints js: a key that is not in the map
\* yet is added with the value true
RECURSIVE GetActorsLoop(_, _, _)
GetActorsLoop(actors, js, char_is_signed) ==
  IF js = <<>> THEN actors
  ELSE LET first_int == CharToInt(urdf_model_.joint[Head(js)].name[1], char_is_signed)
           next == IF first_int \in DOMAIN actors THEN actors
                   ELSE [ k \in DOMAIN actors \cup {first_int} |->
                            IF k = first_int THEN TRUE ELSE actors[k] ]
       IN  GetActorsLoop(next, Tail(js), char_is_signed)

\* std::map::clear
clear(actors) == [k \in {} |-> TRUE]

\* get_actors(actors): the std::map<int, bool> is cleared, then filled
get_actors(actors, char_is_signed) ==
  GetActorsLoop(clear(actors), joints_, char_is_signed)

\* the elements of a set of integers in ascending order
RECURSIVE Ascending(_)
Ascending(S) ==
  IF S = {} THEN <<>> ELSE << SetMin(S) >> \o Ascending(S \ {SetMin(S)})

\* the keys of a std::map<int, bool> in the order its iterator visits them
MapKeys(actors) == Ascending(DOMAIN actors)

\* NamesOfActor, were the test of the first character left out
RECURSIVE NamesOfAnyActor(_, _, _)
NamesOfAnyActor(actor_name, ids, records) ==
  IF ids = <<>> THEN <<>>
  ELSE << [ name |-> records[Head(ids)].name, considerCollisions |-> "None" ] >>
       \o NamesOfAnyActor(actor_name, Tail(ids), records)

\* one loop of an Actor: a Node, with considerCollisions "None", for every
\* record whose name starts with the character actor_name
RECURSIVE NamesOfActor(_, _, _)
NamesOfActor(actor_name, ids, records) ==
  IF ids = <<>> THEN <<>>
  ELSE (IF records[Head(ids)].name[1] = actor_name
        THEN << [ name |-> records[Head(ids)].name, considerCollisions |-> "None" ] >>
        ELSE <<>>)
       \o NamesOfActor(actor_name, Tail(ids), records)

\* the Actor nodes, one per key of the map
RECURSIVE ActorNodes(_)
ActorNodes(keys) ==
  IF keys = <<>> THEN <<>>
  ELSE << [ name |-> IntToChar(Head(keys)),
            Node |-> NamesOfActor(IntToChar(Head(keys)), links_, urdf_model_.link)
                     \o NamesOfActor(IntToChar(Head(keys)), joints_, urdf_model_.joint) ] >>
       \o ActorNodes(Tail(keys))

add_endeffector_node_ ==
  /\ pc = "endeffector"
  /\ \E char_is_signed \in BOOLEAN :
       hand_node' = Append(hand_node,
         [ tag |-> "Endeffector", name |-> hand_name_upper,
           base |-> hand_base, tcp |-> hand_tcp, gcp |-> hand_gcp,
           Preshape |-> JointNames(joints_),
           Static |-> << base_link >>,
           Actor |-> ActorNodes(MapKeys(get_actors(<<>>, char_is_signed))) ])
  /\ pc' = "hand_joints"
  /\ UNCHANGED link
  /\ AppendOnly

add_hand_joints_node_ ==
  /\ pc = "hand_joints"
  /\ hand_node' = Append(hand_node,
       [ tag |-> "RobotNodeSet", name |-> hand_name_upper \o <<32, 74, 111, 105, 110, 116, 115>>,
         Node |-> JointNames(joints_) ])
  /\ pc' = "write"
  /\ UNCHANGED link
  /\ AppendOnly

\* pt.add_child("Robot", hand_node) and boost::property_tree::write_xml
write_xml ==
  /\ pc = "write"
  /\ file' = << [ path |-> output_dir_ \o Slash \o simox_xml_filename,
                  Type |-> hand_name_upper,
                  RootNode |-> hand_base,
                  Robot |-> hand_node ] >>
  /\ pc' = "done"
  /\ UNCHANGED << urdf_model_, links_, joints_, err, simox_xml_filename, hand_name,
                  base_link, hand_node, stack, link, link_node, simox_filename,
                  fp, line, status, invocations >>

Next ==
  \/ WriteXml
  \/ add_hand_base_node_
  \/ add_hand_tcp_node_
  \/ add_hand_gcp_node_
  \/ add_link_node_
  \/ convert_mesh_
  \/ getline_line
  \/ getline_eof
  \/ convert_mesh_return
  \/ add_link_node_children
  \/ add_joint_node_
  \/ add_link_node_return
  \/ add_endeffector_node_
  \/ add_hand_joints_node_
  \/ write_xml

Spec == Init /\ [][Next]_vars

-----------------------------------------------------------------------------
(* Reading the model and the document, for the properties below.           *)

NumLinks == Len(links_)

Links == DOMAIN urdf_model_.link
Joints == DOMAIN urdf_model_.joint

\* the elements of a sequence
Range(seq) == { seq[i] : i \in DOMAIN seq }

\* the source root link: the link no joint leads to
RootLink ==
  CHOOSE i \in Links :
    \A j \in Joints : urdf_model_.joint[j].child_link_name # urdf_model_.link[i].name

\* the child link of joint j
ChildLink(j) == getLink(urdf_model_.joint[j].child_link_name)

\* the links of the subtree whose root is link i, and the joints inside it
RECURSIVE LinksBelow(_)
LinksBelow(i) ==
  {i} \cup UNION { LinksBelow(ChildLink(j)) : j \in Range(urdf_model_.link[i].child_joints) }

JointsBelow(i) ==
  UNION { Range(urdf_model_.link[k].child_joints) : k \in LinksBelow(i) }

\* the places of the RobotNodes of one kind, and of the nodes with one tag
RobotNodesAt(doc, kind) ==
  { n \in DOMAIN doc : doc[n].tag = "RobotNode" /\ doc[n].kind = kind }

NodesAt(doc, tag) == { n \in DOMAIN doc : doc[n].tag = tag }

\* the ids of the links, and of the joints, that have a RobotNode
EmittedLinks(doc) == { doc[n].id : n \in RobotNodesAt(doc, "link") }
EmittedJoints(doc) == { doc[n].id : n \in RobotNodesAt(doc, "joint") }

\* a reference that begins with "package://" and goes on with at least a
\* package name and a path
WellFormedReference(ref) ==
  /\ Len(ref) >= Len(packagePrefix)
  /\ SubSeq(ref, 1, Len(packagePrefix)) = packagePrefix
  /\ \E k \in (Len(packagePrefix) + 1)..Len(ref) : ref[k] = 47

BeginsWithPackagePrefix(ref) ==
  /\ Len(ref) >= Len(packagePrefix)
  /\ SubSeq(ref, 1, Len(packagePrefix)) = packagePrefix

WellFormedModel ==
  /\ \A i \in Links : /\ urdf_model_.link[i].geometry = "MESH"
                      /\ WellFormedReference(urdf_model_.link[i].filename)
  /\ \A j \in Joints : urdf_model_.joint[j].type \in {"REVOLUTE", "FIXED"}

-----------------------------------------------------------------------------
(* C1.  A completed run on a well-formed tree of N links emits N link      *)
(* RobotNodes, N - 1 joint RobotNodes, the 3 synthetic RobotNodes, one     *)
(* Endeffector and one RobotNodeSet, whatever the order of links_.         *)
C1_NodeCounts ==
  (pc = "done" /\ WellFormedModel) =>
    /\ Cardinality(RobotNodesAt(file[1].Robot, "link")) = NumLinks
    /\ Cardinality(RobotNodesAt(file[1].Robot, "joint")) = NumLinks - 1
    /\ Cardinality(RobotNodesAt(file[1].Robot, "base")) = 1
    /\ Cardinality(RobotNodesAt(file[1].Robot, "tcp")) = 1
    /\ Cardinality(RobotNodesAt(file[1].Robot, "gcp")) = 1
    /\ Cardinality(NodesAt(file[1].Robot, "Endeffector")) = 1
    /\ Cardinality(NodesAt(file[1].Robot, "RobotNodeSet")) = 1

(* C2.  In the document of a completed run every Child reference names a   *)
(* RobotNode whose name is defined exactly once.                           *)
C2_ReferentialIntegrity ==
  pc = "done" =>
    \A n \in NodesAt(file[1].Robot, "RobotNode") :
      \A c \in DOMAIN file[1].Robot[n].Child :
        Cardinality({ m \in NodesAt(file[1].Robot, "RobotNode") :
                        file[1].Robot[m].name = file[1].Robot[n].Child[c] }) = 1

(* C3.  The output path is written only by a run that built the base, tcp  *)
(* and gcp nodes, the nodes of the whole walk, the Endeffector and the     *)
(* RobotNodeSet without an error; a run that ends in a fatal condition     *)
(* leaves the output path unwritten.                                       *)
C3_NoPartialDocument ==
  /\ (pc = "exit" \/ err # "none") => file = <<>>
  /\ file # <<>> =>
       /\ pc = "done" /\ err = "none"
       /\ file[1].Robot = hand_node
       /\ stack = <<>>
       /\ Cardinality(RobotNodesAt(hand_node, "base")) = 1
       /\ Cardinality(RobotNodesAt(hand_node, "tcp")) = 1
       /\ Cardinality(RobotNodesAt(hand_node, "gcp")) = 1
       /\ EmittedLinks(hand_node) = LinksBelow(links_[1])
       /\ EmittedJoints(hand_node) = JointsBelow(links_[1])
       /\ hand_node[Len(hand_node) - 1].tag = "Endeffector"
       /\ hand_node[Len(hand_node)].tag = "RobotNodeSet"

\* a run ended by an unsupported joint after part of the document was built
C3_Witness ==
  /\ pc = "exit" /\ err = "UnsupportedJointType"
  /\ RobotNodesAt(hand_node, "joint") # {}
  /\ file = <<>>


\* the number of "." in a file name
RECURSIVE CountDots(_)
CountDots(filename) ==
  IF filename = <<>> THEN 0
  ELSE (IF Head(filename) = 46 THEN 1 ELSE 0) + CountDots(Tail(filename))

(* C4.  write_xml called with a file name that has no "." or more than one *)
(* ends with MalformedOutputName before links_[0] is read, before any node *)
(* is built and before the tool is invoked; a file name with exactly one   *)
(* "." passes the test.                                                    *)
C4_MalformedOutputName ==
  pc # "write_xml" =>
    /\ CountDots(simox_xml_filename) # 1 =>
         /\ pc = "exit" /\ err = "MalformedOutputName"
         /\ base_link = <<>> /\ link = 0 /\ stack = <<>>
         /\ hand_node = <<>>
         /\ invocations = <<>> /\ fp = "null"
    /\ CountDots(simox_xml_filename) = 1 =>
         /\ err # "MalformedOutputName"
         /\ base_link = urdf_model_.link[links_[1]].name

\* write_xml was called with "hand" and the run has ended
C4_Witness ==
  /\ simox_xml_filename = <<104, 97, 110, 100>>
  /\ pc = "exit" /\ err = "MalformedOutputName"

\* the popen commands issued for link i
InvocationsOf(i) ==
  { k \in DOMAIN invocations :
      invocations[k].i = OriginalFilename(urdf_model_.link[i].filename) }

(* C5.  convert_mesh_ on a reference that does not begin with "package://" *)
(* ends the run with MalformedMeshReference and the tool is not invoked    *)
(* for it (every invocation made belongs to a link emitted before), also   *)
(* when "package://" stands later in the reference.                        *)
C5_PrefixRequired ==
  (/\ link # 0
   /\ pc \notin {"link", "visualization"}
   /\ urdf_model_.link[link].geometry = "MESH"
   /\ ~BeginsWithPackagePrefix(urdf_model_.link[link].filename)) =>
     /\ pc = "exit" /\ err = "MalformedMeshReference"
     /\ fp # "open"
     /\ Len(invocations) = 2 * Cardinality(RobotNodesAt(hand_node, "link"))

(* C6.  A joint that is neither REVOLUTE nor FIXED ends the run with       *)
(* UnsupportedJointType when the walk reaches it: no joint of another kind *)
(* ever has a RobotNode, and in the run that ended so no RobotNode exists  *)
(* for that joint, for its child link or for anything below, none for a    *)
(* later sibling of it or of an ancestor, and every conversion that was    *)
(* invoked belongs to a link emitted before.                               *)
C6_UnsupportedJointType ==
  /\ \A j \in EmittedJoints(hand_node) :
       urdf_model_.joint[j].type \in {"REVOLUTE", "FIXED"}
  /\ err = "UnsupportedJointType" =>
       /\ pc = "exit"
       /\ LET frame == Head(stack)
              siblings == urdf_model_.link[frame.link].child_joints
          IN  /\ frame.idx \in DOMAIN siblings
              /\ ~(urdf_model_.joint[siblings[frame.idx]].type \in {"REVOLUTE", "FIXED"})
       /\ \A f \in DOMAIN stack :
            LET siblings == urdf_model_.link[stack[f].link].child_joints
            IN  \A k \in DOMAIN siblings :
                  (k > stack[f].idx \/ (f = 1 /\ k = stack[f].idx)) =>
                    /\ siblings[k] \notin EmittedJoints(hand_node)
                    /\ EmittedLinks(hand_node) \cap LinksBelow(ChildLink(siblings[k])) = {}
                    /\ EmittedJoints(hand_node) \cap JointsBelow(ChildLink(siblings[k])) = {}
       /\ Len(invocations) = 2 * Cardinality(RobotNodesAt(hand_node, "link"))
       /\ fp # "open"

\* the run ended at an unsupported joint that has a later sibling, after an
\* earlier part of the tree was emitted
C6_Witness ==
  /\ pc = "exit" /\ err = "UnsupportedJointType"
  /\ Head(stack).idx < Len(urdf_model_.link[Head(stack).link].child_joints)
  /\ Cardinality(RobotNodesAt(hand_node, "link")) >= 1


(* C7.  Whatever the order of links_, the Tree Emitter is started at the   *)
(* source root link, and the third Child of the base node and the Static   *)
(* node of the Endeffector name that root link.                            *)
C7_StartsAtRoot ==
  /\ (pc = "link" /\ stack = <<>>) => link = RootLink
  /\ \A n \in RobotNodesAt(hand_node, "base") :
       hand_node[n].Child[3] = urdf_model_.link[RootLink].name
  /\ \A n \in NodesAt(hand_node, "Endeffector") :
       hand_node[n].Static = << urdf_model_.link[RootLink].name >>

(* C8.  The tool is invoked once per link visited: at most one conversion  *)
(* is run for a link, and a completed run over N links has invoked the     *)
(* tool exactly N times.                                                   *)
C8_OneConversionPerLink ==
  /\ \A i \in Links :
       urdf_model_.link[i].geometry = "MESH" /\ ~MalformedMeshReference(urdf_model_.link[i].filename)
         => Cardinality(InvocationsOf(i)) <= 1
  /\ pc = "done" => Len(invocations) = NumLinks

\* the first characters of the names, each kept where it is seen first
RECURSIVE FirstObserved(_, _)
FirstObserved(names, seen) ==
  IF names = <<>> THEN <<>>
  ELSE IF Head(names)[1] \in seen THEN FirstObserved(Tail(names), seen)
  ELSE << Head(names)[1] >> \o FirstObserved(Tail(names), seen \cup {Head(names)[1]})

\* the keys of the Actor nodes, in the order of the nodes
RECURSIVE ActorKeys(_)
ActorKeys(nodes) ==
  IF nodes = <<>> THEN <<>> ELSE << Head(nodes).name >> \o ActorKeys(Tail(nodes))

\* a std::map<int, bool> that is not empty when get_actors is entered
UsedMap == [ k \in {1, 106, 200} |-> TRUE ]

(* C9.  get_actors on joints_ yields the distinct first characters in the  *)
(* order in which each is first seen in joints_, and the Actor nodes come  *)
(* in that order; filling a map that is not empty gives the same keys in   *)
(* the same order; no joints give no Actor.                                *)
C9_ActorOrder ==
  /\ \A n \in NodesAt(hand_node, "Endeffector") :
       /\ ActorKeys(hand_node[n].Actor) = FirstObserved(JointNames(joints_), {})
       /\ joints_ = <<>> => hand_node[n].Actor = <<>>
  /\ \A char_is_signed \in BOOLEAN :
       MapKeys(get_actors(UsedMap, char_is_signed)) =
         MapKeys(get_actors(<<>>, char_is_signed))

\* a is before b in the lexicographic order of the bytes
LexBefore(a, b) ==
  \E k \in 1..(Len(a) + 1) :
    /\ k <= Len(b)
    /\ \A m \in 1..(k - 1) : a[m] = b[m]
    /\ k = Len(a) + 1 \/ a[k] < b[k]

\* the names list every joint of the model once, in ascending order
SortedJointNames(names) ==
  /\ Len(names) = Cardinality(Joints)
  /\ { names[k] : k \in DOMAIN names } = { urdf_model_.joint[j].name : j \in Joints }
  /\ \A k \in 1..(Len(names) - 1) : LexBefore(names[k], names[k + 1])

\* the places of the joint RobotNodes, as positions among them, give the
\* order in which the Tree Emitter emitted the joints
RECURSIVE EmissionOrder(_)
EmissionOrder(doc) ==
  IF doc = <<>> THEN <<>>
  ELSE (IF Head(doc).tag = "RobotNode" /\ Head(doc).kind = "joint"
        THEN << Head(doc).name >> ELSE <<>>) \o EmissionOrder(Tail(doc))

(* C10.  The RobotNodeSet and the Preshape list each hold every joint of   *)
(* the model once, both in the one lexicographic order of the names that   *)
(* the constructor fixed, whatever the declaration order the Tree Emitter  *)
(* followed.                                                               *)
C10_SortedJointLists ==
  /\ \A n \in NodesAt(hand_node, "Endeffector") :
       /\ SortedJointNames(hand_node[n].Preshape)
       /\ hand_node[n].Preshape = JointNames(joints_)
  /\ \A n \in NodesAt(hand_node, "RobotNodeSet") :
       /\ SortedJointNames(hand_node[n].Node)
       /\ \A m \in NodesAt(hand_node, "Endeffector") :
            hand_node[n].Node = hand_node[m].Preshape

\* a written document whose joint RobotNodes are all there, in an order
\* that is not the order of the RobotNodeSet
C10_Witness ==
  /\ pc = "done"
  /\ Len(joints_) >= 2
  /\ Len(EmissionOrder(hand_node)) = Len(joints_)
  /\ EmissionOrder(hand_node) # hand_node[Len(hand_node)].Node
  /\ hand_node[Len(hand_node)].Node = hand_node[Len(hand_node) - 1].Preshape


(* C11.  Every handle popen returned is closed by pclose on every way out  *)
(* of the run: no run ends, done or by a fatal exit, with the handle open. *)
C11_HandleClosed ==
  pc \in {"done", "exit"} => fp # "open"


\* the Node entries an Actor with the key c is to hold for the ids, in
\* their order
ExpectedNodes(c, ids, records) ==
  LET chosen == SelectSeq(ids, LAMBDA x : records[x].name[1] = c)
  IN  [ k \in DOMAIN chosen |->
          [ name |-> records[chosen[k]].name, considerCollisions |-> "None" ] ]

\* the Actors that hold a Node with the name
ActorsHolding(actors, name) ==
  { a \in DOMAIN actors : \E k \in DOMAIN actors[a].Node : actors[a].Node[k].name = name }

(* C12.  The Endeffector has one Actor per first character of a joint      *)
(* name, and each Actor lists the links whose name starts with its key, in *)
(* the order of links_, then the joints whose name does, in the order of   *)
(* joints_, each with considerCollisions "None"; so every joint is in      *)
(* exactly one Actor and a link is in an Actor only if a joint shares its  *)
(* first character.                                                        *)
C12_ActorMembers ==
  \A n \in NodesAt(hand_node, "Endeffector") :
    LET actors == hand_node[n].Actor
        keys == { urdf_model_.joint[j].name[1] : j \in Joints }
    IN  /\ Len(actors) = Cardinality(keys)
        /\ { actors[a].name : a \in DOMAIN actors } = keys
        /\ \A a \in DOMAIN actors :
             actors[a].Node =
               ExpectedNodes(actors[a].name, links_, urdf_model_.link)
                 \o ExpectedNodes(actors[a].name, joints_, urdf_model_.joint)
        /\ \A j \in Joints :
             Cardinality(ActorsHolding(actors, urdf_model_.joint[j].name)) = 1
        /\ \A i \in Links :
             ActorsHolding(actors, urdf_model_.link[i].name) # {} =>
               \E j \in Joints :
                 urdf_model_.joint[j].name[1] = urdf_model_.link[i].name[1]

\* an Endeffector with two Actors, one of them with a link and a joint, and
\* a link that is in no Actor
C12_Witness ==
  \E n \in NodesAt(hand_node, "Endeffector") :
    /\ Len(hand_node[n].Actor) >= 2
    /\ \E a \in DOMAIN hand_node[n].Actor : Len(hand_node[n].Actor[a].Node) >= 2
    /\ \E i \in Links : ActorsHolding(hand_node[n].Actor, urdf_model_.link[i].name) = {}


\* the line has the failure marker somewhere in it
ContainsMarker(str) ==
  \E k \in 1..(Len(str) - Len(FailureMarker) + 1) :
    SubSeq(str, k, k + Len(FailureMarker) - 1) = FailureMarker

(* C13.  What a mesh conversion comes to is settled by the lines of the    *)
(* tool's output and never by its exit status: the run fails with          *)
(* MeshConversionFailed only at a line that holds "loaded has 0 vn", while *)
(* the output is still being read and before pclose; no line that holds it *)
(* is passed over; and once the output has ended without such a line the   *)
(* conversion returns the target path, whatever status pclose reported.    *)
C13_OutcomeFromOutputOnly ==
  /\ err = "MeshConversionFailed" =>
       /\ pc = "exit"
       /\ ContainsMarker(line)
       /\ fp = "open"
       /\ status = <<>>
  /\ pc \in {"visualization_getline", "collision_getline"} =>
       /\ ~ ContainsMarker(line)
       /\ err = "none"
  /\ pc \in {"visualization_return", "collision_return"} =>
       /\ status \in {<< 0 >>, << 1 >>}
       /\ err = "none"
       /\ simox_filename = SimoxFilename(urdf_model_.link[link].filename)
  /\ pc \in {"collision", "link_children"} =>
       /\ err = "none"
       /\ link_node[Len(link_node)] = SimoxFilename(urdf_model_.link[link].filename)

\* the second conversion of a link at its return, the tool having exited
\* with a status other than 0, after the first one returned its path
C13_Witness ==
  /\ pc = "collision_return"
  /\ status = << 1 >>
  /\ err = "none"
  /\ simox_filename # <<>>
  /\ link_node[Len(link_node)] = simox_filename


\* the part of the reference after its last "/"
LastSegment(ref) == SubSeq(ref, FindLastOf(ref, Slash) + 1, Len(ref))

\* the segment without its extension: what is before its last ".", and all
\* of it when it has none
WithoutExtension(segment) ==
  LET dot == FindLastOf(segment, Dot)
  IN  IF dot = 0 THEN segment ELSE SubSeq(segment, 1, dot - 1)

\* <output_dir>/meshes/<base>.wrl for the reference
TargetPath(ref) ==
  output_dir_ \o MeshesDir \o Slash \o WithoutExtension(LastSegment(ref)) \o WrlSuffix

(* C14.  For a well-formed mesh reference the path the conversion works    *)
(* with and returns is <output_dir>/meshes/<base>.wrl, <base> being the    *)
(* last "/"-separated segment of the reference without its extension, that *)
(* is with only what follows its last "." taken away.                      *)
C14_TargetPath ==
  \A i \in Links :
    (/\ link = i
     /\ pc \in {"visualization_getline", "collision_getline",
                "visualization_return", "collision_return"}
     /\ WellFormedReference(urdf_model_.link[i].filename))
      => simox_filename = TargetPath(urdf_model_.link[i].filename)

=============================================================================
